---- MODULE Spec2Model ----
(***************************************************************************)
(* A model of loopa/core.py: LoopManager (one event loop run to completion *)
(* of one root coroutine, optionally on its own thread) and LoopaTroopa    *)
(* (the init / run-forever / stop loop built on it).                       *)
(*                                                                         *)
(* The asyncio event loop is modelled by its ready queue: a FIFO of        *)
(* callbacks, run one at a time by the loop thread, in iterations          *)
(* (BaseEventLoop._run_once runs the callbacks that were ready when the    *)
(* iteration began; loop.stop() takes effect at the end of an iteration).  *)
(* threading.Event is a flag plus the threads blocked in wait().           *)
(***************************************************************************)
EXTENDS Integers, Sequences, FiniteSets, TLC

\* Bounds of the model.
MaxActivations == 2      \* calls of start() on one object
MaxRoutineSteps == 2     \* resumptions of task_run by its own awaitables
MaxStops == 1            \* stop requests made by the foreign thread
MaxLimit == 3            \* largest run-step count at which loop_run stops itself
MaxArgs == 2             \* distinct argument tuples given to start()
MaxRegs == 3             \* calls of append_guardling, prepend_guardling, remove_guardling
MaxStopCalls == 1        \* calls of Aengel.stop() besides the watcher's
MaxUnitSteps == 2        \* run-steps of one task loop registered with a LoopaCommanda

VARIABLES
    threaded,                 \* LoopManager._threaded
    reusable_loop,            \* LoopManager.reusable_loop
    term_flag,                \* LoopManager._term_flag: "None", "unset", "set"
    startup_complete_flag,    \* threading.Event
    shutdown_complete_flag,   \* threading.Event
    loop_closed,              \* self._loop.is_closed()
    ready,                    \* self._loop._ready
    todo,                     \* callbacks left in the current loop iteration
    stopping,                 \* self._loop._stopping
    thread,                   \* LoopManager._thread: "None" or "thread"
    looper_future,            \* self._looper_future: none, ready, waiting, woken, done
    looper_outcome,           \* what the root coroutine returned or raised
    aborter,                  \* the task of _term_flag.wait()
    worker,                   \* the task of task_run()
    cancel_req,               \* tasks on which cancel() was called and not yet delivered
    worker_exc,               \* the exception task_run ended with
    wsteps,                   \* steps task_run has taken in this activation
    act,                      \* activations started so far
    run_pc,                   \* position of the thread executing _run / start
    run_exc,                  \* the exception propagating out of _run
    caller_pc,                \* the thread that calls start()
    foreign_pc,               \* the thread that calls stop_threadsafe[_nowait]
    foreign_mode,             \* "nowait" or "wait"
    foreign_ref,              \* the activation whose Event the bound method refers to
    foreign_exc,              \* the exception the foreign call ended with
    stops,                    \* stop requests made so far
    shutdown_sets,            \* history: shutdown_complete_flag.set() calls, this activation
    startup_sets,             \* history: startup_complete_flag.set() calls, this activation
    race,                     \* history: finished / pending / cancelled at the end of the race
    self_stopped,             \* history: stop() succeeded inside the routine, this activation
    cls,                      \* the class of the object: "LoopManager" or "LoopaTroopa"
    shutdown_init_flag,       \* LoopaTroopa._shutdown_init_flag: "None", "unset", "set"
    looper_pc,                \* where _execute_looper is suspended
    task,                     \* the task of loop_run(), this iteration
    interrupt,                \* the task of _shutdown_init_flag.wait(), this iteration
    cleanup,                  \* the task of loop_stop() inside asyncio.shield
    pending_exc,              \* the exception _execute_looper will end with
    runner,                   \* run-steps begun in this activation
    limit,                    \* the run-step at which loop_run calls self.stop()
    start_args,               \* the arguments given to start()
    initter,                  \* the arguments loop_init received
    stopper,                  \* what loop_stop observed of them
    loop_init_calls,          \* history: calls of loop_init, this activation
    loop_stop_calls,          \* history: calls of loop_stop, this activation
    stop_issued_at,           \* history: the run-step in progress when the foreign stop was dispatched
    self_stop_at,             \* history: the run-step that called self.stop()
    step_no,                  \* calls of _step_looper, this activation
    guardlings,               \* Aengel._guardlings, the deque, left to right
    gstate,                   \* the deque's mutation counter
    dead,                     \* Aengel._dead
    stoplock,                 \* Aengel._stoplock: "free" or the thread that holds it
    main_alive,               \* the main thread has not ended
    wpc,                      \* where each thread is in Aengel.stop()
    wit,                      \* each thread's walk: its deque iterator, and whether a guardling raised
    wcur,                     \* the guardling each thread's loop variable holds
    wexc,                     \* the exception a thread's stop() call ended with
    signaled,                 \* history: the guardlings asked to stop, in order
    reg_exc,                  \* the exception the last registration call ended with
    reg_op,                   \* history: the last registration call and its argument
    reg_calls,                \* history: registration calls made
    stop_calls,               \* history: calls of stop() by the caller thread
    walks,                    \* history: walks begun
    units                     \* the task loops registered with a LoopaCommanda

cfgv == <<threaded, reusable_loop>>
flagv == <<term_flag, startup_complete_flag, shutdown_complete_flag>>
loopv == <<loop_closed, ready, todo, stopping>>
taskv == <<looper_future, looper_outcome, aborter, worker, cancel_req, worker_exc, wsteps>>
runv == <<act, run_pc, run_exc, thread>>
foreignv == <<foreign_pc, foreign_mode, foreign_ref, foreign_exc, stops>>
histv == <<shutdown_sets, startup_sets, race, self_stopped>>

troopav == <<cls, shutdown_init_flag, looper_pc, task, interrupt, cleanup, pending_exc,
             runner, limit, start_args, initter, stopper, loop_init_calls, loop_stop_calls,
             stop_issued_at, self_stop_at, step_no>>

aengelv == <<guardlings, gstate, dead, stoplock, main_alive, wpc, wit, wcur, wexc, signaled,
             reg_exc, reg_op, reg_calls, stop_calls, walks>>

commandv == <<units>>
vars == <<cfgv, flagv, loopv, taskv, runv, caller_pc, foreignv, histv, troopav, aengelv,
          commandv>>

NoRace == [finished |-> {}, pending |-> {}, cancelled |-> {}, resolved |-> FALSE]

\* The fields LoopManager.__init__ sets
InitManager ==
    /\ threaded \in BOOLEAN
    /\ reusable_loop \in BOOLEAN
    /\ term_flag = "None"
    /\ startup_complete_flag = FALSE
    /\ shutdown_complete_flag = FALSE
    /\ loop_closed = FALSE
    /\ ready = <<>>
    /\ todo = 0
    /\ stopping = FALSE
    /\ thread = "None"
    /\ looper_future = "none"
    /\ looper_outcome = "none"
    /\ aborter = "none"
    /\ worker = "none"
    /\ cancel_req = {}
    /\ worker_exc = "none"
    /\ wsteps = 0
    /\ act = 0
    /\ run_pc = "idle"
    /\ run_exc = "none"
    /\ caller_pc = "idle"
    /\ foreign_pc = "idle"
    /\ foreign_mode = "nowait"
    /\ foreign_ref = 0
    /\ foreign_exc = "none"
    /\ stops = 0
    /\ shutdown_sets = 0
    /\ startup_sets = 0
    /\ race = NoRace
    /\ self_stopped = FALSE

\* The fields LoopaTroopa.__init__ adds
InitTroopa ==
    /\ shutdown_init_flag = "None"
    /\ looper_pc = "none"
    /\ task = "none"
    /\ interrupt = "none"
    /\ cleanup = "none"
    /\ pending_exc = "none"
    /\ runner = 0
    /\ start_args = 0
    /\ initter = 0
    /\ stopper = 0
    /\ loop_init_calls = 0
    /\ loop_stop_calls = 0
    /\ stop_issued_at = 0
    /\ self_stop_at = 0
    /\ step_no = 0

\* The value of a loop variable that holds nothing yet
NoGuardling == [g |-> "none", n |-> 0]

\* The threads that call Aengel.stop(): the aengel's own and one more
Walkers == {"watcher", "caller"}

\* The fields Aengel.__init__ sets, before any guardling is registered
\* The task loops registered with a LoopaCommanda: two
Units == {"troopa1", "troopa2"}

InitCommanda ==
    units = [u \in Units |-> [state |-> "created", steps |-> 0, cleanups |-> 0]]

InitAengel ==
    /\ guardlings = <<>>
    /\ gstate = 0
    /\ dead = FALSE
    /\ stoplock = "free"
    /\ main_alive = TRUE
    /\ wpc = [w \in Walkers |-> "idle"]
    /\ wit = [w \in Walkers |-> [left |-> 0, state |-> 0, walk |-> 0, raised |-> FALSE]]
    /\ wcur = [w \in Walkers |-> NoGuardling]
    /\ wexc = [w \in Walkers |-> "none"]
    /\ signaled = <<>>
    /\ reg_exc = "none"
    /\ reg_op = [op |-> "none", g |-> "none"]
    /\ reg_calls = 0
    /\ stop_calls = 0
    /\ walks = 0

\* A LoopManager after construction
Init ==
    /\ cls = "LoopManager"
    /\ InitManager
    /\ InitTroopa
    /\ InitAengel
    /\ InitCommanda
    /\ limit = 0

\* A LoopaTroopa after construction, whose loop_run stops itself at run-step limit
InitLoop ==
    /\ cls = "LoopaTroopa"
    /\ InitManager
    /\ InitTroopa
    /\ InitAengel
    /\ InitCommanda
    /\ limit \in 1..MaxLimit

\* An Aengel after construction; its guardlings are not modelled beyond their answer
\* to stop_threadsafe_nowait()
InitWatchdog ==
    /\ cls = "Aengel"
    /\ InitManager
    /\ threaded = FALSE
    /\ reusable_loop = FALSE
    /\ InitTroopa
    /\ InitAengel
    /\ InitCommanda
    /\ limit = 0

InitCommand ==
    /\ cls = "LoopaCommanda"
    /\ InitManager
    /\ threaded = TRUE
    /\ reusable_loop = FALSE
    /\ InitTroopa
    /\ InitAengel
    /\ InitCommanda
    /\ limit = 0

\* A callback of the ready queue, tagged with the activation that scheduled it.
cb(kind) == [k |-> kind, id |-> act, gen |-> 0]

\* threading.Event.set() wakes every thread blocked in wait().
Woken(pc) == IF pc = "blocked" THEN "returned" ELSE pc

----
\* LoopManager.start
start ==
    /\ cls = "LoopManager"
    /\ caller_pc \in {"idle", "returned", "raised"}
    /\ run_pc \in {"idle", "finished"}
    /\ act < MaxActivations
    /\ act' = act + 1
    /\ run_pc' = "run_entry"
    /\ run_exc' = "none"
    /\ IF threaded
       THEN thread' = "thread" /\ caller_pc' = "start_wait"
       ELSE thread' = "None" /\ caller_pc' = "in_run"
    /\ shutdown_sets' = 0
    /\ startup_sets' = 0
    /\ race' = NoRace
    /\ self_stopped' = FALSE
    /\ UNCHANGED <<aengelv, commandv, cfgv, flagv, loopv, taskv, foreignv>>
    /\ UNCHANGED troopav

\* self._startup_complete_flag.wait(timeout=None) in start
start_wait ==
    /\ caller_pc = "start_wait"
    /\ caller_pc' = IF startup_complete_flag THEN "returned" ELSE "blocked"
    /\ UNCHANGED <<aengelv, commandv, cfgv, flagv, loopv, taskv, runv, foreignv, histv>>
    /\ UNCHANGED troopav

\* LoopManager._run: set_debug, self._shutdown_complete_flag.clear()
run_entry ==
    /\ run_pc = "run_entry"
    /\ shutdown_complete_flag' = FALSE
    /\ run_pc' = "run_try"
    /\ UNCHANGED <<aengelv, commandv, cfgv, term_flag, startup_complete_flag, loopv, taskv, act, run_exc,
                   thread, caller_pc, foreignv, histv>>
    /\ UNCHANGED troopav

\* LoopManager._run: ensure_future(self._execute_task(...)) and the entry of
\* run_until_complete. create_task on a closed loop raises RuntimeError.
run_try ==
    /\ run_pc = "run_try"
    /\ IF loop_closed
       THEN /\ run_exc' = "loop_closed"
            /\ run_pc' = "finally_inner"
            /\ UNCHANGED <<ready, looper_future, looper_outcome>>
       ELSE /\ ready' = Append(ready, cb("looper_step"))
            /\ looper_future' = "ready"
            /\ looper_outcome' = "none"
            /\ run_pc' = "looping"
            /\ UNCHANGED run_exc
    /\ UNCHANGED <<aengelv, commandv, cfgv, flagv, loop_closed, todo, stopping, aborter, worker, cancel_req,
                   worker_exc, wsteps, act, thread, caller_pc, foreignv, histv>>
    /\ UNCHANGED troopav

\* The loop thread is about to run the callback at the head of the ready queue.
Running(kinds) ==
    /\ run_pc = "looping"
    /\ ready # <<>>
    /\ ~(todo = 0 /\ stopping)
    /\ task # "blocked"
    /\ Head(ready).k \in kinds

\* BaseEventLoop._run_once: ntodo = len(self._ready) when the iteration begins.
NextTodo == (IF todo = 0 THEN Len(ready) ELSE todo) - 1

\* A task that completes schedules the done callback asyncio.wait added to it.
Completion(kind) ==
    IF looper_future \in {"waiting", "woken"} THEN <<cb(kind)>> ELSE <<>>

\* self._startup_complete_flag.set() called in place, not handed to the loop
looper_step_sets_startup ==
    /\ Running({"looper_step"})
    /\ todo' = NextTodo
    /\ term_flag' = "unset"
    /\ aborter' = "ready"
    /\ worker' = "ready"
    /\ worker_exc' = "none"
    /\ wsteps' = 0
    /\ cancel_req' = {}
    /\ ready' = Tail(ready) \o <<cb("aborter_step"), cb("worker_step")>>
    /\ looper_future' = "waiting"
    /\ startup_complete_flag' = TRUE
    /\ caller_pc' = Woken(caller_pc)
    /\ startup_sets' = startup_sets + 1
    /\ UNCHANGED <<aengelv, commandv, cfgv, shutdown_complete_flag, loop_closed, stopping,
                   looper_outcome, runv, foreignv, shutdown_sets, race, self_stopped>>
    /\ UNCHANGED troopav

\* LoopManager._execute_task, up to the await of asyncio.wait
looper_step ==
    /\ Running({"looper_step"})
    /\ todo' = NextTodo
    /\ term_flag' = "unset"
    /\ aborter' = "ready"
    /\ worker' = "ready"
    /\ worker_exc' = "none"
    /\ wsteps' = 0
    /\ cancel_req' = {}
    /\ ready' = Tail(ready) \o <<cb("aborter_step"), cb("worker_step"), cb("startup_set")>>
    /\ looper_future' = "waiting"
    /\ UNCHANGED <<aengelv, commandv, cfgv, startup_complete_flag, shutdown_complete_flag, loop_closed, stopping,
                   looper_outcome, runv, caller_pc, foreignv, histv>>
    /\ UNCHANGED troopav

\* asyncio.Event.wait, the aborter's coroutine: one step of its task
aborter_step ==
    /\ Running({"aborter_step"})
    /\ todo' = NextTodo
    /\ IF "aborter" \in cancel_req
       THEN /\ aborter' = "cancelled"
            /\ cancel_req' = cancel_req \ {"aborter"}
            /\ ready' = Tail(ready)
       ELSE IF term_flag = "set"
       THEN /\ aborter' = "done"
            /\ ready' = Tail(ready) \o Completion("on_completion_aborter")
            /\ UNCHANGED cancel_req
       ELSE /\ aborter' = "waiting"
            /\ ready' = Tail(ready)
            /\ UNCHANGED cancel_req
    /\ UNCHANGED <<aengelv, commandv, cfgv, flagv, loop_closed, stopping, looper_future, looper_outcome, worker,
                   worker_exc, wsteps, runv, caller_pc, foreignv, histv>>
    /\ UNCHANGED troopav

\* The startup check left out
NeverRefused == FALSE

\* The check that opens stop() and stop_threadsafe_nowait()
NotStarted == ~startup_complete_flag

\* What one step of the routine does before it returns control to the loop.
Behaviours == {"suspend", "return", "raise", "stop_suspend", "stop_return"}

\* One step of task_run. A step that calls LoopManager.stop() either is refused
\* (RuntimeError, which ends the routine) or sets the term flag.
task_run(b) ==
    LET calls == b \in {"stop_suspend", "stop_return"}
        refused == calls /\ NotStarted
        sets == calls /\ ~refused
        wakes == sets /\ term_flag = "unset" /\ aborter = "waiting"
        w == IF refused \/ b = "raise" THEN "failed"
             ELSE IF b \in {"return", "stop_return"} THEN "done"
             ELSE "waiting"
    IN  /\ worker' = w
        /\ worker_exc' = IF refused THEN "ordering"
                         ELSE IF b = "raise" THEN "failure" ELSE "none"
        /\ term_flag' = IF sets THEN "set" ELSE term_flag
        /\ aborter' = IF wakes THEN "ready" ELSE aborter
        /\ ready' = Tail(ready)
                    \o (IF wakes THEN <<cb("aborter_step")>> ELSE <<>>)
                    \o (IF w = "waiting" THEN <<>> ELSE Completion("on_completion_worker"))
        /\ wsteps' = wsteps + 1
        /\ self_stopped' = (self_stopped \/ sets)

\* One step of the worker task: the cancellation if one was requested, else the routine
worker_step ==
    /\ Running({"worker_step"})
    /\ todo' = NextTodo
    /\ IF "worker" \in cancel_req
       THEN /\ worker' = "cancelled"
            /\ cancel_req' = cancel_req \ {"worker"}
            /\ ready' = Tail(ready)
            /\ UNCHANGED <<term_flag, aborter, worker_exc, wsteps, self_stopped>>
       ELSE /\ \E b \in Behaviours : task_run(b)
            /\ UNCHANGED cancel_req
    /\ UNCHANGED <<aengelv, commandv, cfgv, startup_complete_flag, shutdown_complete_flag, loop_closed, stopping,
                   looper_future, looper_outcome, runv, caller_pc, foreignv,
                   shutdown_sets, startup_sets, race>>
    /\ UNCHANGED troopav

\* The awaitable task_run is suspended on completes (a timer, a future).
worker_wake ==
    /\ cls = "LoopManager"
    /\ run_pc = "looping"
    /\ worker = "waiting"
    /\ wsteps < MaxRoutineSteps
    /\ worker' = "ready"
    /\ ready' = Append(ready, cb("worker_step"))
    /\ UNCHANGED <<aengelv, commandv, cfgv, flagv, loop_closed, todo, stopping, looper_future, looper_outcome,
                   aborter, cancel_req, worker_exc, wsteps, runv, caller_pc, foreignv, histv>>
    /\ UNCHANGED troopav

\* self._startup_complete_flag.set, scheduled by _execute_task
startup_set ==
    /\ Running({"startup_set"})
    /\ todo' = NextTodo
    /\ ready' = Tail(ready)
    /\ startup_complete_flag' = TRUE
    /\ caller_pc' = Woken(caller_pc)
    /\ startup_sets' = startup_sets + 1
    /\ UNCHANGED <<aengelv, commandv, cfgv, term_flag, shutdown_complete_flag, loop_closed, stopping, taskv, runv,
                   foreignv, shutdown_sets, race, self_stopped>>
    /\ UNCHANGED troopav

\* self._term_flag.set, scheduled by stop_threadsafe_nowait: the bound method of the
\* Event that was the term flag when the foreign thread read it.
term_set ==
    /\ Running({"term_set"})
    /\ todo' = NextTodo
    /\ LET live == Head(ready).id = act /\ term_flag # "None"
           wakes == live /\ term_flag = "unset" /\ aborter = "waiting"
       IN  /\ term_flag' = IF live THEN "set" ELSE term_flag
           /\ aborter' = IF wakes THEN "ready" ELSE aborter
           /\ ready' = Tail(ready) \o (IF wakes THEN <<cb("aborter_step")>> ELSE <<>>)
    /\ UNCHANGED <<aengelv, commandv, cfgv, startup_complete_flag, shutdown_complete_flag, loop_closed, stopping,
                   looper_future, looper_outcome, worker, cancel_req, worker_exc, wsteps,
                   runv, caller_pc, foreignv, histv>>
    /\ UNCHANGED troopav

\* return_when = ALL_COMPLETED in place of FIRST_COMPLETED
AllCompleted ==
    /\ looper_future = "waiting"
    /\ \A t \in {"aborter", "worker"} :
          (IF t = "aborter" THEN aborter ELSE worker) \in {"done", "failed", "cancelled"}

\* return_when = asyncio.FIRST_COMPLETED: any completion resolves a waiter still pending
FirstCompleted == looper_future = "waiting"

\* asyncio.wait's _on_completion
on_completion ==
    /\ Running({"on_completion_aborter", "on_completion_worker"})
    /\ todo' = NextTodo
    /\ IF FirstCompleted
       THEN /\ looper_future' = "woken"
            /\ ready' = Tail(ready) \o <<cb("looper_wakeup")>>
       ELSE /\ ready' = Tail(ready)
            /\ UNCHANGED looper_future
    /\ UNCHANGED <<aengelv, commandv, cfgv, flagv, loop_closed, stopping, looper_outcome, aborter, worker,
                   cancel_req, worker_exc, wsteps, runv, caller_pc, foreignv, histv>>
    /\ UNCHANGED troopav

\* The state of a task, by name
TaskState(t) == IF t = "aborter" THEN aborter ELSE worker

\* The done set asyncio.wait returns: the tasks that are done when the waiter wakes
Finished == {t \in {"aborter", "worker"} : TaskState(t) \in {"done", "failed", "cancelled"}}

\* The pending set asyncio.wait returns
Pending == {"aborter", "worker"} \ Finished

\* "pending, = pending; finished, = finished": each unpacks a set of exactly one
Unpacks == Cardinality(Pending) = 1 /\ Cardinality(Finished) = 1

\* Task.cancel() on the tasks in ts: a task waiting on a future is woken to receive
\* the CancelledError, a task whose step is already scheduled receives it in that step.
CancelWakes(ts) ==
    (IF "aborter" \in ts /\ aborter = "waiting" THEN <<cb("aborter_step")>> ELSE <<>>)
    \o (IF "worker" \in ts /\ worker = "waiting" THEN <<cb("worker_step")>> ELSE <<>>)

\* finished.result(): the result of the finished task, or its exception
Result ==
    IF Finished = {"aborter"} THEN "aborter_result"
    ELSE IF worker = "done" THEN "worker_result"
    ELSE worker_exc

\* The term flag dropped after the return statement only, with no finally block
looper_wakeup_no_finally ==
    /\ Running({"looper_wakeup"})
    /\ todo' = NextTodo
    /\ LET cancelled == IF Unpacks THEN Pending ELSE {}
       IN  /\ cancel_req' = cancel_req \cup cancelled
           /\ aborter' = IF "aborter" \in cancelled /\ aborter = "waiting"
                         THEN "ready" ELSE aborter
           /\ worker' = IF "worker" \in cancelled /\ worker = "waiting"
                        THEN "ready" ELSE worker
           /\ ready' = Tail(ready) \o CancelWakes(cancelled) \o <<cb("stop_cb")>>
           /\ looper_outcome' = IF Unpacks THEN Result ELSE "ValueError"
           /\ race' = [finished |-> Finished, pending |-> Pending,
                       cancelled |-> cancelled, resolved |-> TRUE]
    /\ term_flag' = IF Unpacks /\ Result \in {"aborter_result", "worker_result"}
                     THEN "None" ELSE term_flag
    /\ looper_future' = "done"
    /\ UNCHANGED <<aengelv, commandv, cfgv, startup_complete_flag, shutdown_complete_flag, loop_closed, stopping,
                   worker_exc, wsteps, runv, caller_pc, foreignv,
                   shutdown_sets, startup_sets, self_stopped>>
    /\ UNCHANGED troopav

\* LoopManager._execute_task, from the return of asyncio.wait to the end: unpack,
\* cancel the pending task, return the finished one's result; finally drop the term
\* flag. The root future's completion schedules run_until_complete's stop callback.
looper_wakeup ==
    /\ Running({"looper_wakeup"})
    /\ todo' = NextTodo
    /\ LET cancelled == IF Unpacks THEN Pending ELSE {}
       IN  /\ cancel_req' = cancel_req \cup cancelled
           /\ aborter' = IF "aborter" \in cancelled /\ aborter = "waiting"
                         THEN "ready" ELSE aborter
           /\ worker' = IF "worker" \in cancelled /\ worker = "waiting"
                        THEN "ready" ELSE worker
           /\ ready' = Tail(ready) \o CancelWakes(cancelled) \o <<cb("stop_cb")>>
           /\ looper_outcome' = IF Unpacks THEN Result ELSE "ValueError"
           /\ race' = [finished |-> Finished, pending |-> Pending,
                       cancelled |-> cancelled, resolved |-> TRUE]
    /\ term_flag' = "None"
    /\ looper_future' = "done"
    /\ UNCHANGED <<aengelv, commandv, cfgv, startup_complete_flag, shutdown_complete_flag, loop_closed, stopping,
                   worker_exc, wsteps, runv, caller_pc, foreignv,
                   shutdown_sets, startup_sets, self_stopped>>
    /\ UNCHANGED troopav

\* run_until_complete's _run_until_complete_cb: loop.stop()
stop_cb ==
    /\ Running({"stop_cb"})
    /\ todo' = NextTodo
    /\ ready' = Tail(ready)
    /\ stopping' = TRUE
    /\ UNCHANGED <<aengelv, commandv, cfgv, flagv, loop_closed, taskv, runv, caller_pc, foreignv, histv>>
    /\ UNCHANGED troopav

\* run_until_complete returns the root future's result or raises its exception, at
\* the end of the iteration in which the loop was stopped.
exit_loop ==
    /\ cls = "LoopManager"
    /\ run_pc = "looping"
    /\ todo = 0
    /\ stopping
    /\ stopping' = FALSE
    /\ run_exc' = IF looper_outcome \in {"worker_result", "aborter_result"}
                  THEN "none" ELSE looper_outcome
    /\ run_pc' = "finally_inner"
    /\ UNCHANGED <<aengelv, commandv, cfgv, flagv, loop_closed, ready, todo, taskv, act, thread, caller_pc,
                   foreignv, histv>>
    /\ UNCHANGED troopav

\* finalize() called only for a reusable loop: the condition inverted
run_finally_inner_inverted ==
    /\ run_pc = "finally_inner"
    /\ thread' = "None"
    /\ IF ~reusable_loop
       THEN UNCHANGED <<loop_closed, ready, todo>>
       ELSE loop_closed' = TRUE /\ ready' = <<>> /\ todo' = 0
    /\ run_pc' = "finally_clear"
    /\ UNCHANGED <<aengelv, commandv, cfgv, flagv, stopping, taskv, act, run_exc, caller_pc, foreignv, histv>>
    /\ UNCHANGED troopav

\* LoopManager._run, inner finally: self._thread = None; finalize() unless reusable.
\* loop.close() drops the callbacks still in the ready queue.
run_finally_inner ==
    /\ run_pc = "finally_inner"
    /\ thread' = "None"
    /\ IF reusable_loop
       THEN UNCHANGED <<loop_closed, ready, todo>>
       ELSE loop_closed' = TRUE /\ ready' = <<>> /\ todo' = 0
    /\ run_pc' = "finally_clear"
    /\ UNCHANGED <<aengelv, commandv, cfgv, flagv, stopping, taskv, act, run_exc, caller_pc, foreignv, histv>>
    /\ UNCHANGED troopav

\* A single try/finally: the error of loop.close() skips the two flag operations
close_error_skips_flags ==
    /\ run_pc = "finally_inner"
    /\ ~reusable_loop
    /\ ~loop_closed
    /\ thread' = "None"
    /\ run_exc' = "close_error"
    /\ run_pc' = "finished"
    /\ caller_pc' = IF threaded THEN caller_pc ELSE "raised"
    /\ UNCHANGED <<aengelv, commandv, cfgv, flagv, loopv, taskv, act, foreignv, histv>>
    /\ UNCHANGED troopav

\* The same, with loop.close() raising: the loop stays open and the error propagates.
run_finally_inner_close_error ==
    /\ run_pc = "finally_inner"
    /\ ~reusable_loop
    /\ ~loop_closed
    /\ thread' = "None"
    /\ run_exc' = "close_error"
    /\ run_pc' = "finally_clear"
    /\ UNCHANGED <<aengelv, commandv, cfgv, flagv, loopv, taskv, act, caller_pc, foreignv, histv>>
    /\ UNCHANGED troopav

\* LoopManager._run, outer finally: self._startup_complete_flag.clear()
run_finally_clear ==
    /\ run_pc = "finally_clear"
    /\ startup_complete_flag' = FALSE
    /\ run_pc' = "finally_set"
    /\ UNCHANGED <<aengelv, commandv, cfgv, term_flag, shutdown_complete_flag, loopv, taskv, act, run_exc,
                   thread, caller_pc, foreignv, histv>>
    /\ UNCHANGED troopav

\* LoopManager._run, outer finally: self._shutdown_complete_flag.set(); then _run
\* returns or raises, which in the non-threaded case ends start().
run_finally_set ==
    /\ run_pc = "finally_set"
    /\ shutdown_complete_flag' = TRUE
    /\ shutdown_sets' = shutdown_sets + 1
    /\ foreign_pc' = Woken(foreign_pc)
    /\ run_pc' = "finished"
    /\ caller_pc' = IF threaded THEN caller_pc
                    ELSE IF run_exc = "none" THEN "returned" ELSE "raised"
    /\ UNCHANGED <<aengelv, commandv, cfgv, term_flag, startup_complete_flag, loopv, taskv, act, run_exc,
                   thread, foreign_mode, foreign_ref, foreign_exc, stops,
                   startup_sets, race, self_stopped>>
    /\ UNCHANGED troopav

\* LoopManager.finalize, called by the owner between activations
finalize ==
    /\ cls = "LoopManager"
    /\ caller_pc \in {"idle", "returned", "raised"}
    /\ run_pc \in {"idle", "finished"}
    /\ ~loop_closed
    /\ loop_closed' = TRUE
    /\ ready' = <<>>
    /\ todo' = 0
    /\ UNCHANGED <<aengelv, commandv, cfgv, flagv, stopping, taskv, runv, caller_pc, foreignv, histv>>
    /\ UNCHANGED troopav

----
\* LoopManager.stop_threadsafe_nowait / stop_threadsafe, entered by the foreign thread:
\* the startup check, which raises RuntimeError before anything else is done
stop_threadsafe_nowait(mode) ==
    /\ cls = "LoopManager"
    /\ foreign_pc \in {"idle", "returned", "raised"}
    /\ stops < MaxStops
    /\ stops' = stops + 1
    /\ foreign_mode' = mode
    /\ IF NotStarted
       THEN foreign_pc' = "raised" /\ foreign_exc' = "ordering"
       ELSE foreign_pc' = "bind" /\ foreign_exc' = "none"
    /\ UNCHANGED <<aengelv, commandv, cfgv, flagv, loopv, taskv, runv, caller_pc, foreign_ref, histv>>
    /\ UNCHANGED troopav

\* The argument self._term_flag.set is evaluated: AttributeError on None
stop_bind ==
    /\ foreign_pc = "bind"
    /\ IF term_flag = "None"
       THEN foreign_pc' = "raised" /\ foreign_exc' = "AttributeError" /\ UNCHANGED foreign_ref
       ELSE foreign_pc' = "dispatch" /\ foreign_ref' = act /\ UNCHANGED foreign_exc
    /\ UNCHANGED <<aengelv, commandv, cfgv, flagv, loopv, taskv, runv, caller_pc, foreign_mode, stops, histv>>
    /\ UNCHANGED troopav

\* self._loop.call_soon_threadsafe(...): RuntimeError on a closed loop
stop_dispatch ==
    /\ foreign_pc = "dispatch"
    /\ IF loop_closed
       THEN foreign_pc' = "raised" /\ foreign_exc' = "loop_closed" /\ UNCHANGED ready
       ELSE /\ ready' = Append(ready, [k |-> "term_set", id |-> foreign_ref, gen |-> 0])
            /\ foreign_pc' = IF foreign_mode = "wait" THEN "shutdown_wait" ELSE "returned"
            /\ UNCHANGED foreign_exc
    /\ UNCHANGED <<aengelv, commandv, cfgv, flagv, loop_closed, todo, stopping, taskv, runv, caller_pc,
                   foreign_mode, foreign_ref, stops, histv>>
    /\ UNCHANGED troopav

\* LoopManager.stop_threadsafe: self._shutdown_complete_flag.wait(timeout=None)
stop_wait ==
    /\ foreign_pc = "shutdown_wait"
    /\ foreign_pc' = IF shutdown_complete_flag THEN "returned" ELSE "blocked"
    /\ UNCHANGED <<aengelv, commandv, cfgv, flagv, loopv, taskv, runv, caller_pc, foreign_mode, foreign_ref,
                   foreign_exc, stops, histv>>
    /\ UNCHANGED troopav

----
\* The steps of the thread that executes _run
LoopThread ==
    \/ run_entry
    \/ run_try
    \/ looper_step
    \/ aborter_step
    \/ worker_step
    \/ startup_set
    \/ term_set
    \/ on_completion
    \/ looper_wakeup
    \/ stop_cb
    \/ exit_loop
    \/ run_finally_inner
    \/ run_finally_clear
    \/ run_finally_set

\* The steps of the foreign thread inside a stop call it has entered
ForeignThread ==
    \/ stop_bind
    \/ stop_dispatch
    \/ stop_wait

Next ==
    \/ start
    \/ start_wait
    \/ LoopThread
    \/ worker_wake
    \/ finalize
    \/ \E mode \in {"nowait", "wait"} : stop_threadsafe_nowait(mode)
    \/ ForeignThread

Spec == Init /\ [][Next]_vars

\* The same program, where loop.close() may fail and every thread keeps running.
NextFault == Next \/ run_finally_inner_close_error

Fairness ==
    /\ WF_vars(LoopThread)
    /\ WF_vars(start_wait)
    /\ WF_vars(ForeignThread)

FairSpec == Init /\ [][NextFault]_vars /\ Fairness

----
(***************************************************************************)
(* LoopaTroopa: start() is overridden and runs _execute_looper.            *)
(***************************************************************************)

\* A callback that belongs to the tasks of _step_looper call number g
tcb(kind, g) == [k |-> kind, id |-> act, gen |-> g]

\* LoopaTroopa.start, entered: by the thread __init__ spawned (threaded, with __init__
\* blocked on startup-complete) or by the caller.
troopa_start(args) ==
    /\ cls = "LoopaTroopa"
    /\ caller_pc \in {"idle", "returned", "raised"}
    /\ run_pc \in {"idle", "finished"}
    /\ act < MaxActivations
    /\ act' = act + 1
    /\ start_args' = args
    /\ run_pc' = "troopa_try"
    /\ run_exc' = "none"
    /\ caller_pc' = IF threaded /\ act = 0 THEN "start_wait" ELSE "in_run"
    /\ thread' = IF threaded THEN "thread" ELSE "None"
    /\ loop_init_calls' = 0
    /\ loop_stop_calls' = 0
    /\ stop_issued_at' = 0
    /\ self_stop_at' = 0
    /\ step_no' = 0
    /\ race' = NoRace
    /\ looper_pc' = "none"
    /\ UNCHANGED <<aengelv, commandv, cfgv, flagv, loopv, taskv, foreignv, shutdown_sets, startup_sets,
                   self_stopped, cls, shutdown_init_flag, task, interrupt, cleanup,
                   pending_exc, runner, limit, initter, stopper>>

\* LoopaTroopa.start, the try block: a new _shutdown_init_flag, ensure_future of
\* _execute_looper (RuntimeError on a closed loop), the entry of run_until_complete
troopa_try ==
    /\ run_pc = "troopa_try"
    /\ shutdown_init_flag' = "unset"
    /\ IF loop_closed
       THEN /\ run_exc' = "loop_closed"
            /\ run_pc' = "troopa_finally"
            /\ UNCHANGED <<ready, looper_future, looper_outcome, looper_pc>>
       ELSE /\ ready' = Append(ready, cb("execute_looper"))
            /\ looper_future' = "ready"
            /\ looper_outcome' = "none"
            /\ looper_pc' = "init"
            /\ run_pc' = "looping"
            /\ UNCHANGED run_exc
    /\ UNCHANGED <<aengelv, commandv, cfgv, flagv, loop_closed, todo, stopping, aborter, worker, cancel_req,
                   worker_exc, wsteps, act, thread, caller_pc, foreignv, histv, cls, task,
                   interrupt, cleanup, pending_exc, runner, limit, start_args, initter,
                   stopper, loop_init_calls, loop_stop_calls, stop_issued_at, self_stop_at,
                   step_no>>

\* LoopaTroopa._step_looper, up to the await of asyncio.wait: the two tasks, and the
\* startup-complete signal if it is not set yet. q is the ready queue so far.
EnterStep(q) ==
    /\ step_no <= MaxLimit
    /\ step_no' = step_no + 1
    /\ task' = "ready"
    /\ interrupt' = "ready"
    /\ cancel_req' = {}
    /\ ready' = q \o <<tcb("task_step", step_no + 1), tcb("interrupt_step", step_no + 1)>>
                  \o (IF startup_complete_flag THEN <<>> ELSE <<cb("startup_set")>>)
    /\ looper_pc' = "step_wait"
    /\ looper_future' = "waiting"
    /\ UNCHANGED <<cleanup, pending_exc, looper_outcome>>

\* LoopaTroopa._execute_looper, the finally block up to its first await:
\* asyncio.shield(self.loop_stop()) makes loop_stop a task of its own. exc is the
\* exception that is propagating; t, i and cr are the two tasks and the cancellations
\* requested as _step_looper left them.
EnterCleanup(q, exc, t, i, cr) ==
    /\ cleanup' = "ready"
    /\ ready' = q \o <<cb("cleanup_step")>>
    /\ pending_exc' = exc
    /\ task' = t
    /\ interrupt' = i
    /\ cancel_req' = cr
    /\ looper_pc' = "cleanup_wait"
    /\ looper_future' = "waiting"
    /\ UNCHANGED <<step_no, looper_outcome>>

\* "except CancelledError:" names nothing core.py defines or imports: matching any
\* exception against it raises NameError, which is what then propagates.
ExceptClause(exc) == "NameError"

\* The loop condition left out: while True
LoopForever == TRUE

\* "while not self._shutdown_init_flag.is_set()"
LoopContinues == shutdown_init_flag # "set"

\* No finally block: an exception of _step_looper ends the coroutine at once
ProceedNoFinally(q, exc, t, i, cr) ==
    IF exc # "none"
    THEN /\ looper_future' = "done"
         /\ looper_outcome' = exc
         /\ looper_pc' = "done"
         /\ ready' = q \o <<cb("stop_cb")>>
         /\ task' = t
         /\ interrupt' = i
         /\ cancel_req' = cr
         /\ UNCHANGED <<cleanup, pending_exc, step_no>>
    ELSE IF LoopContinues THEN EnterStep(q)
    ELSE EnterCleanup(q, "none", t, i, cr)

\* LoopaTroopa._execute_looper from the loop head on, entered with the exception exc
\* (or "none") that the last _step_looper raised
Proceed(q, exc, t, i, cr) ==
    IF exc # "none" THEN EnterCleanup(q, ExceptClause(exc), t, i, cr)
    ELSE IF LoopContinues THEN EnterStep(q)
    ELSE EnterCleanup(q, "none", t, i, cr)

\* LoopaTroopa._execute_looper, first step: loop_init is awaited outside the try block
execute_looper ==
    /\ Running({"execute_looper"})
    /\ todo' = NextTodo
    /\ loop_init_calls' = loop_init_calls + 1
    /\ \E ok \in BOOLEAN :
          IF ok
          THEN /\ initter' = start_args
               /\ runner' = 0
               /\ Proceed(Tail(ready), "none", "none", "none", {})
          ELSE /\ looper_future' = "done"
               /\ looper_outcome' = "init_failure"
               /\ looper_pc' = "done"
               /\ ready' = Tail(ready) \o <<cb("stop_cb")>>
               /\ UNCHANGED <<initter, runner, task, interrupt, cleanup, pending_exc,
                              cancel_req, step_no>>
    /\ UNCHANGED <<aengelv, commandv, cfgv, flagv, loop_closed, stopping, aborter, worker, worker_exc, wsteps,
                   runv, caller_pc, foreignv, histv, cls, shutdown_init_flag, limit,
                   start_args, stopper, loop_stop_calls, stop_issued_at, self_stop_at>>

\* What no coroutine of a LoopaTroopa activation assigns
TroopaFrame ==
    UNCHANGED <<aengelv, commandv, cfgv, term_flag, startup_complete_flag, shutdown_complete_flag, loop_closed,
                stopping, aborter, worker, worker_exc, wsteps, runv, caller_pc, foreign_pc,
                foreign_mode, foreign_ref, foreign_exc, stops, shutdown_sets, startup_sets,
                self_stopped, cls, limit, start_args>>

\* The done callback asyncio.wait keeps on a task until _step_looper is resumed
StepCompletion(kind) ==
    IF looper_pc = "step_wait" THEN <<tcb(kind, step_no)>> ELSE <<>>

\* asyncio.Event.set() on the interrupt flag: the interrupt task waiting on it is woken
EventWakes == IF interrupt = "waiting" THEN <<tcb("interrupt_step", step_no)>> ELSE <<>>

\* The interrupt task after asyncio.Event.set()
EventWoken == IF interrupt = "waiting" THEN "resumed" ELSE interrupt

\* What loop_run may do in the run-step it begins as number n: the fixture's loop_run
\* calls self.stop() in run-step number limit and not before.
RunBehaviours(n) ==
    IF n = limit THEN {"stop_return", "stop_suspend"}
    ELSE {"return", "suspend", "block", "raise", "raise_cancel"}

\* One call of loop_run up to its first suspension, or to its end
loop_run(b) ==
    LET calls == b \in {"stop_return", "stop_suspend"}
        t == IF b \in {"return", "stop_return"} THEN "done"
             ELSE IF b = "raise" THEN "failed"
             ELSE IF b = "raise_cancel" THEN "cancelled"
             ELSE IF b = "block" THEN "blocked"
             ELSE "waiting"
    IN  /\ runner' = runner + 1
        /\ task' = t
        /\ shutdown_init_flag' = IF calls THEN "set" ELSE shutdown_init_flag
        /\ interrupt' = IF calls THEN EventWoken ELSE interrupt
        /\ self_stop_at' = IF calls THEN runner + 1 ELSE self_stop_at
        /\ ready' = Tail(ready)
                    \o (IF calls THEN EventWakes ELSE <<>>)
                    \o (IF t \in {"done", "failed", "cancelled"}
                        THEN StepCompletion("on_completion_task") ELSE <<>>)

\* One step of the task that wraps loop_run. The step of a task of an earlier
\* _step_looper call delivers the cancellation that call requested.
task_step ==
    /\ Running({"task_step"})
    /\ todo' = NextTodo
    /\ IF Head(ready).gen # step_no \/ task \notin {"ready", "resumed"}
       THEN /\ ready' = Tail(ready)
            /\ UNCHANGED <<task, cancel_req, runner, shutdown_init_flag, interrupt,
                           self_stop_at>>
       ELSE IF "task" \in cancel_req
       THEN /\ task' = "cancelled"
            /\ cancel_req' = cancel_req \ {"task"}
            /\ ready' = Tail(ready) \o StepCompletion("on_completion_task")
            /\ UNCHANGED <<runner, shutdown_init_flag, interrupt, self_stop_at>>
       ELSE IF task = "ready"
       THEN /\ \E b \in RunBehaviours(runner + 1) : loop_run(b)
            /\ UNCHANGED cancel_req
       ELSE /\ \E t \in {"done", "failed"} : task' = t
            /\ ready' = Tail(ready) \o StepCompletion("on_completion_task")
            /\ UNCHANGED <<cancel_req, runner, shutdown_init_flag, interrupt, self_stop_at>>
    /\ TroopaFrame
    /\ UNCHANGED <<looper_future, looper_outcome, race, looper_pc, cleanup, pending_exc,
                   initter, stopper, loop_init_calls, loop_stop_calls, stop_issued_at,
                   step_no>>

\* loop_run returns from a call that blocked the loop's thread
loop_run_unblock ==
    /\ run_pc = "looping"
    /\ task = "blocked"
    /\ task' = "done"
    /\ ready' = ready \o StepCompletion("on_completion_task")
    /\ TroopaFrame
    /\ UNCHANGED <<todo, looper_future, looper_outcome, cancel_req, race, shutdown_init_flag,
                   looper_pc, interrupt, cleanup, pending_exc, runner, initter, stopper,
                   loop_init_calls, loop_stop_calls, stop_issued_at, self_stop_at, step_no>>

\* The awaitable loop_run is suspended on completes
task_wake ==
    /\ run_pc = "looping"
    /\ task = "waiting"
    /\ task' = "resumed"
    /\ ready' = Append(ready, tcb("task_step", step_no))
    /\ TroopaFrame
    /\ UNCHANGED <<todo, looper_future, looper_outcome, cancel_req, race, shutdown_init_flag,
                   looper_pc, interrupt, cleanup, pending_exc, runner, initter, stopper,
                   loop_init_calls, loop_stop_calls, stop_issued_at, self_stop_at, step_no>>

\* One step of the task that wraps self._shutdown_init_flag.wait()
interrupt_step ==
    /\ Running({"interrupt_step"})
    /\ todo' = NextTodo
    /\ IF Head(ready).gen # step_no \/ interrupt \notin {"ready", "resumed"}
       THEN /\ ready' = Tail(ready)
            /\ UNCHANGED <<interrupt, cancel_req>>
       ELSE IF "interrupt" \in cancel_req
       THEN /\ interrupt' = "cancelled"
            /\ cancel_req' = cancel_req \ {"interrupt"}
            /\ ready' = Tail(ready) \o StepCompletion("on_completion_interrupt")
       ELSE IF shutdown_init_flag = "set"
       THEN /\ interrupt' = "done"
            /\ ready' = Tail(ready) \o StepCompletion("on_completion_interrupt")
            /\ UNCHANGED cancel_req
       ELSE /\ interrupt' = "waiting"
            /\ ready' = Tail(ready)
            /\ UNCHANGED cancel_req
    /\ TroopaFrame
    /\ UNCHANGED <<looper_future, looper_outcome, race, shutdown_init_flag, looper_pc, task,
                   cleanup, pending_exc, runner, initter, stopper, loop_init_calls,
                   loop_stop_calls, stop_issued_at, self_stop_at, step_no>>

\* The callback scheduled is the flag's clear method
FlagClearEffect == "unset"

\* The callback stop_threadsafe_nowait scheduled is the flag's set method
FlagSetEffect == "set"

\* self._shutdown_init_flag.set, scheduled by stop_threadsafe_nowait: the bound method
\* of the Event that was the interrupt flag when the foreign thread read it
flag_set ==
    /\ Running({"flag_set"})
    /\ todo' = NextTodo
    /\ LET live == Head(ready).id = act
           wakes == live /\ FlagSetEffect = "set" /\ shutdown_init_flag = "unset"
       IN  /\ shutdown_init_flag' = IF live THEN FlagSetEffect ELSE shutdown_init_flag
           /\ interrupt' = IF wakes THEN EventWoken ELSE interrupt
           /\ ready' = Tail(ready) \o (IF wakes THEN EventWakes ELSE <<>>)
    /\ TroopaFrame
    /\ UNCHANGED <<looper_future, looper_outcome, cancel_req, race, looper_pc, task, cleanup,
                   pending_exc, runner, initter, stopper, loop_init_calls, loop_stop_calls,
                   stop_issued_at, self_stop_at, step_no>>

\* asyncio.wait's _on_completion, for the wait of _step_looper
step_on_completion ==
    /\ Running({"on_completion_task", "on_completion_interrupt"})
    /\ todo' = NextTodo
    /\ IF Head(ready).gen = step_no /\ looper_pc = "step_wait" /\ looper_future = "waiting"
       THEN /\ looper_future' = "woken"
            /\ ready' = Tail(ready) \o <<tcb("step_wakeup", step_no)>>
       ELSE /\ ready' = Tail(ready)
            /\ UNCHANGED looper_future
    /\ TroopaFrame
    /\ UNCHANGED <<looper_outcome, cancel_req, race, shutdown_init_flag, looper_pc, task,
                   interrupt, cleanup, pending_exc, runner, initter, stopper, loop_init_calls,
                   loop_stop_calls, stop_issued_at, self_stop_at, step_no>>

\* The state of one of the two tasks of _step_looper, by name
StepTask(t) == IF t = "task" THEN task ELSE interrupt

\* The done set asyncio.wait returns to _step_looper
StepFinished ==
    {t \in {"task", "interrupt"} : StepTask(t) \in {"done", "failed", "cancelled"}}

\* self._raise_if_exc(t): the failure of a finished task is raised in the caller
RaiseIfExc(t) ==
    IF StepTask(t) = "failed" THEN "failure"
    ELSE IF StepTask(t) = "cancelled" THEN "CancelledError"
    ELSE "none"

\* Task.cancel() on the tasks in ts that are suspended
StepCancelWakes(ts) ==
    (IF "task" \in ts /\ task = "waiting" THEN <<tcb("task_step", step_no)>> ELSE <<>>)
    \o (IF "interrupt" \in ts /\ interrupt = "waiting"
        THEN <<tcb("interrupt_step", step_no)>> ELSE <<>>)

\* A task after Task.cancel() on the tasks in ts
AfterCancel(t, ts) == IF t \in ts /\ StepTask(t) = "waiting" THEN "resumed" ELSE StepTask(t)

\* What inspecting the task raises: "if task in finished: self._raise_if_exc(task)"
TaskRaised == IF "task" \in StepFinished THEN RaiseIfExc("task") ELSE "none"

\* A single if / elif chain that looks at the interrupt first: a task that finished in
\* the same turn is not looked at
StepRaisedSingleBranch ==
    IF "interrupt" \in StepFinished THEN RaiseIfExc("interrupt") ELSE TaskRaised

\* The exception _step_looper ends with, "none" if it returns: the task is inspected
\* first, and the interrupt only if that did not raise
StepRaised ==
    IF TaskRaised # "none" THEN TaskRaised
    ELSE IF "interrupt" \in StepFinished THEN RaiseIfExc("interrupt")
    ELSE "none"

\* The tasks _step_looper calls cancel() on: each one it inspects and does not find
\* in the finished set
StepCancelled ==
    ({"task"} \ StepFinished)
    \cup (IF TaskRaised = "none" THEN {"interrupt"} \ StepFinished ELSE {})

\* LoopaTroopa._step_looper, from the return of asyncio.wait to its end, and
\* _execute_looper from there to its next await: the task is inspected, then, unless
\* that raised, the interrupt.
step_wakeup ==
    /\ Running({"step_wakeup"})
    /\ todo' = NextTodo
    /\ LET cancelled == StepCancelled
           exc == StepRaised
       IN  /\ race' = [finished |-> StepFinished,
                       pending |-> {"task", "interrupt"} \ StepFinished,
                       cancelled |-> cancelled, resolved |-> TRUE]
           /\ Proceed(Tail(ready) \o StepCancelWakes(cancelled), exc,
                      AfterCancel("task", cancelled), AfterCancel("interrupt", cancelled),
                      cancelled)
    /\ TroopaFrame
    /\ UNCHANGED <<shutdown_init_flag, runner, initter, stopper, loop_init_calls,
                   loop_stop_calls, stop_issued_at, self_stop_at>>

\* loop_stop() made a task and not awaited: the looper goes on at once
CleanupNotAwaited(c) == TRUE

\* "await asyncio.shield(self.loop_stop())": the looper is resumed when the task in
\* state c is done, with a result or a failure
CleanupResumes(c) == c # "waiting"

\* loop_stop has begun and has not ended
CleanupRunning == cleanup \in {"ready", "waiting", "resumed"}

\* One step of the task asyncio.shield made of loop_stop()
cleanup_step ==
    /\ Running({"cleanup_step"})
    /\ todo' = NextTodo
    /\ IF cleanup = "ready"
       THEN /\ loop_stop_calls' = loop_stop_calls + 1
            /\ stopper' = initter
            /\ \E b \in {"done", "failed", "waiting"} : cleanup' = b
       ELSE /\ cleanup' = "done"
            /\ UNCHANGED <<loop_stop_calls, stopper>>
    /\ ready' = Tail(ready)
                \o (IF CleanupResumes(cleanup') THEN <<cb("cleanup_wakeup")>> ELSE <<>>)
    /\ TroopaFrame
    /\ UNCHANGED <<looper_future, looper_outcome, cancel_req, race, shutdown_init_flag,
                   looper_pc, task, interrupt, pending_exc, runner, initter, loop_init_calls,
                   stop_issued_at, self_stop_at, step_no>>

\* The awaitable loop_stop is suspended on completes
cleanup_wake ==
    /\ run_pc = "looping"
    /\ cleanup = "waiting"
    /\ cleanup' = "resumed"
    /\ ready' = Append(ready, cb("cleanup_step"))
    /\ TroopaFrame
    /\ UNCHANGED <<todo, looper_future, looper_outcome, cancel_req, race, shutdown_init_flag,
                   looper_pc, task, interrupt, pending_exc, runner, initter, stopper,
                   loop_init_calls, loop_stop_calls, stop_issued_at, self_stop_at, step_no>>

\* The tasks Task.all_tasks() holds besides the looper that are not done
Remaining == {"task", "interrupt"} \ StepFinished

\* LoopaTroopa._execute_looper resumed by the shielded loop_stop: its failure ends the
\* coroutine at once; else _kill_tasks cancels what remains and waits, for at most
\* _death_timeout, on a set of tasks that holds the looper itself.
cleanup_wakeup ==
    /\ Running({"cleanup_wakeup"})
    /\ todo' = NextTodo
    /\ IF cleanup = "failed"
       THEN /\ looper_future' = "done"
            /\ looper_outcome' = "cleanup_failure"
            /\ looper_pc' = "done"
            /\ ready' = Tail(ready) \o <<cb("stop_cb")>>
            /\ UNCHANGED <<task, interrupt, cancel_req>>
       ELSE /\ looper_pc' = "kill_wait"
            /\ cancel_req' = cancel_req \cup Remaining
            /\ task' = AfterCancel("task", Remaining)
            /\ interrupt' = AfterCancel("interrupt", Remaining)
            /\ ready' = Tail(ready) \o StepCancelWakes(Remaining)
            /\ UNCHANGED <<looper_future, looper_outcome>>
    /\ TroopaFrame
    /\ UNCHANGED <<race, shutdown_init_flag, cleanup, pending_exc, runner, initter, stopper,
                   loop_init_calls, loop_stop_calls, stop_issued_at, self_stop_at, step_no>>

\* The timeout of asyncio.wait in _kill_tasks expires
death_timer ==
    /\ run_pc = "looping"
    /\ looper_pc = "kill_wait"
    /\ looper_pc' = "kill_timeout"
    /\ ready' = Append(ready, cb("kill_wakeup"))
    /\ TroopaFrame
    /\ UNCHANGED <<todo, looper_future, looper_outcome, cancel_req, race, shutdown_init_flag,
                   task, interrupt, cleanup, pending_exc, runner, initter, stopper,
                   loop_init_calls, loop_stop_calls, stop_issued_at, self_stop_at, step_no>>

\* LoopaTroopa._execute_looper ends: with the exception that was propagating, if any
kill_wakeup ==
    /\ Running({"kill_wakeup"})
    /\ todo' = NextTodo
    /\ looper_future' = "done"
    /\ looper_outcome' = IF pending_exc = "none" THEN "result" ELSE pending_exc
    /\ looper_pc' = "done"
    /\ ready' = Tail(ready) \o <<cb("stop_cb")>>
    /\ TroopaFrame
    /\ UNCHANGED <<cancel_req, race, shutdown_init_flag, task, interrupt, cleanup,
                   pending_exc, runner, initter, stopper, loop_init_calls, loop_stop_calls,
                   stop_issued_at, self_stop_at, step_no>>

\* run_until_complete returns the looper's result or raises its exception
troopa_exit_loop ==
    /\ cls = "LoopaTroopa"
    /\ run_pc = "looping"
    /\ todo = 0
    /\ stopping
    /\ stopping' = FALSE
    /\ run_exc' = IF looper_outcome = "result" THEN "none" ELSE looper_outcome
    /\ run_pc' = "troopa_finally"
    /\ UNCHANGED <<aengelv, commandv, cfgv, flagv, loop_closed, ready, todo, taskv, act, thread, caller_pc,
                   foreignv, histv, troopav>>

\* LoopaTroopa.start, finally: self._loop.close(), whatever reusable_loop says
troopa_finally_close ==
    /\ run_pc = "troopa_finally"
    /\ loop_closed' = TRUE
    /\ ready' = <<>>
    /\ todo' = 0
    /\ run_pc' = "troopa_finally_set"
    /\ UNCHANGED <<aengelv, commandv, cfgv, flagv, stopping, taskv, act, run_exc, thread, caller_pc, foreignv,
                   histv, troopav>>

\* LoopaTroopa.start, finally: self._shutdown_complete_flag.set(); then start returns
\* or raises, to its caller or to the thread's run.
troopa_finally_set ==
    /\ run_pc = "troopa_finally_set"
    /\ shutdown_complete_flag' = TRUE
    /\ shutdown_sets' = shutdown_sets + 1
    /\ foreign_pc' = Woken(foreign_pc)
    /\ run_pc' = "finished"
    /\ caller_pc' = IF caller_pc # "in_run" THEN caller_pc
                    ELSE IF run_exc = "none" THEN "returned" ELSE "raised"
    /\ UNCHANGED <<aengelv, commandv, cfgv, term_flag, startup_complete_flag, loopv, taskv, act, run_exc,
                   thread, foreign_mode, foreign_ref, foreign_exc, stops,
                   startup_sets, race, self_stopped, troopav>>

\* LoopaTroopa.stop_threadsafe_nowait / stop_threadsafe, entered by the foreign thread:
\* "if not self._loop.is_closed()", and nothing more on a closed loop
troopa_stop_threadsafe_nowait(mode) ==
    /\ cls = "LoopaTroopa"
    /\ threaded => act >= 1
    /\ foreign_pc \in {"idle", "returned", "raised"}
    /\ stops < MaxStops
    /\ stops' = stops + 1
    /\ foreign_mode' = mode
    /\ foreign_exc' = "none"
    /\ foreign_pc' = IF ~loop_closed THEN "troopa_bind"
                     ELSE IF mode = "wait" THEN "shutdown_wait" ELSE "returned"
    /\ UNCHANGED <<aengelv, commandv, cfgv, flagv, loopv, taskv, runv, caller_pc, foreign_ref, histv, troopav>>

\* The argument self._shutdown_init_flag.set is evaluated: AttributeError on None
troopa_stop_bind ==
    /\ foreign_pc = "troopa_bind"
    /\ IF shutdown_init_flag = "None"
       THEN foreign_pc' = "raised" /\ foreign_exc' = "AttributeError" /\ UNCHANGED foreign_ref
       ELSE foreign_pc' = "troopa_dispatch" /\ foreign_ref' = act /\ UNCHANGED foreign_exc
    /\ UNCHANGED <<aengelv, commandv, cfgv, flagv, loopv, taskv, runv, caller_pc, foreign_mode, stops, histv,
                   troopav>>

\* A run-step is in progress: loop_run has begun and has not ended
RunStepInProgress == looper_pc = "step_wait" /\ task \in {"waiting", "blocked", "resumed"}

\* self._loop.call_soon_threadsafe(...): RuntimeError on a closed loop
troopa_stop_dispatch ==
    /\ foreign_pc = "troopa_dispatch"
    /\ IF loop_closed
       THEN /\ foreign_pc' = "raised"
            /\ foreign_exc' = "loop_closed"
            /\ UNCHANGED <<ready, stop_issued_at>>
       ELSE /\ ready' = Append(ready, [k |-> "flag_set", id |-> foreign_ref, gen |-> 0])
            /\ foreign_pc' = IF foreign_mode = "wait" THEN "shutdown_wait" ELSE "returned"
            /\ stop_issued_at' = IF RunStepInProgress /\ foreign_ref = act
                                 THEN runner ELSE stop_issued_at
            /\ UNCHANGED foreign_exc
    /\ UNCHANGED <<aengelv, commandv, cfgv, flagv, loop_closed, todo, stopping, taskv, runv, caller_pc,
                   foreign_mode, foreign_ref, stops, histv, cls, shutdown_init_flag,
                   looper_pc, task, interrupt, cleanup, pending_exc, runner, limit,
                   start_args, initter, stopper, loop_init_calls, loop_stop_calls,
                   self_stop_at, step_no>>

----
\* The steps of the thread that executes LoopaTroopa.start
TroopaThread ==
    \/ troopa_try
    \/ execute_looper
    \/ task_step
    \/ loop_run_unblock
    \/ interrupt_step
    \/ startup_set
    \/ flag_set
    \/ step_on_completion
    \/ step_wakeup
    \/ cleanup_step
    \/ cleanup_wakeup
    \/ death_timer
    \/ kill_wakeup
    \/ stop_cb
    \/ troopa_exit_loop
    \/ troopa_finally_close
    \/ troopa_finally_set

\* The steps of the foreign thread inside a LoopaTroopa stop call it has entered
TroopaForeignThread ==
    \/ troopa_stop_bind
    \/ troopa_stop_dispatch
    \/ stop_wait

NextLoop ==
    \/ \E args \in 1..MaxArgs : troopa_start(args)
    \/ start_wait
    \/ TroopaThread
    \/ task_wake
    \/ cleanup_wake
    \/ \E mode \in {"nowait", "wait"} : troopa_stop_threadsafe_nowait(mode)
    \/ TroopaForeignThread

SpecLoop == InitLoop /\ [][NextLoop]_vars

----
(***************************************************************************)
(* Aengel: the registry of guardlings and the walk of stop(). An entry of  *)
(* the deque is a weak proxy of the object g; n numbers the registration   *)
(* that made it.                                                           *)
(***************************************************************************)

\* What no method of an Aengel assigns
LoopsUnchanged ==
    UNCHANGED <<cfgv, flagv, loopv, taskv, runv, caller_pc, foreignv, histv, troopav,
                commandv>>

\* self._guardlings.append(guardling)
append_guardling(g) ==
    /\ cls = "Aengel"
    /\ reg_calls < MaxRegs
    /\ reg_calls' = reg_calls + 1
    /\ reg_op' = [op |-> "append", g |-> g]
    /\ guardlings' = Append(guardlings, [g |-> g, n |-> reg_calls + 1])
    /\ gstate' = gstate + 1
    /\ reg_exc' = "none"
    /\ UNCHANGED <<dead, stoplock, main_alive, wpc, wit, wcur, wexc, signaled, stop_calls,
                   walks>>
    /\ LoopsUnchanged

\* self._guardlings.appendleft(guardling): also what LoopManager.__init__ and
\* LoopaTroopa.__init__ call when they are given an aengel
prepend_guardling(g) ==
    /\ cls = "Aengel"
    /\ reg_calls < MaxRegs
    /\ reg_calls' = reg_calls + 1
    /\ reg_op' = [op |-> "prepend", g |-> g]
    /\ guardlings' = <<[g |-> g, n |-> reg_calls + 1]>> \o guardlings
    /\ gstate' = gstate + 1
    /\ reg_exc' = "none"
    /\ UNCHANGED <<dead, stoplock, main_alive, wpc, wit, wcur, wexc, signaled, stop_calls,
                   walks>>
    /\ LoopsUnchanged

\* The entries of the deque q that are proxies of g, by position
Matches(q, g) == {i \in 1..Len(q) : q[i].g = g}

RemoveEvery(q, g) == SelectSeq(q, LAMBDA e : e.g # g)

\* deque.remove(g): q without its leftmost proxy of g
RemoveFirst(q, g) ==
    LET i == CHOOSE i \in Matches(q, g) : \A j \in Matches(q, g) : i <= j
    IN  SubSeq(q, 1, i - 1) \o SubSeq(q, i + 1, Len(q))

\* Aengel.remove_guardling: ValueError, logged and raised again, if g is not there
remove_guardling(g) ==
    /\ cls = "Aengel"
    /\ reg_calls < MaxRegs
    /\ reg_calls' = reg_calls + 1
    /\ reg_op' = [op |-> "remove", g |-> g]
    /\ IF Matches(guardlings, g) = {}
       THEN /\ reg_exc' = "ValueError"
            /\ UNCHANGED <<guardlings, gstate>>
       ELSE /\ guardlings' = RemoveFirst(guardlings, g)
            /\ gstate' = gstate + 1
            /\ reg_exc' = "none"
    /\ UNCHANGED <<dead, stoplock, main_alive, wpc, wit, wcur, wexc, signaled, stop_calls,
                   walks>>
    /\ LoopsUnchanged

\* The main thread ends: main.join() in _watcher returns
main_exit ==
    /\ cls = "Aengel"
    /\ main_alive
    /\ main_alive' = FALSE
    /\ UNCHANGED <<guardlings, gstate, dead, stoplock, wpc, wit, wcur, wexc, signaled,
                   reg_exc, reg_op, reg_calls, stop_calls, walks>>
    /\ LoopsUnchanged

\* A thread calls Aengel.stop(): the aengel's own thread once, after the main
\* thread has ended, any other thread whenever it likes
aengel_stop(w) ==
    /\ cls = "Aengel"
    /\ IF w = "watcher"
       THEN /\ ~main_alive
            /\ wpc[w] = "idle"
            /\ UNCHANGED stop_calls
       ELSE /\ wpc[w] \in {"idle", "returned", "raised"}
            /\ stop_calls < MaxStopCalls
            /\ stop_calls' = stop_calls + 1
    /\ wpc' = [wpc EXCEPT ![w] = "acquire"]
    /\ wexc' = [wexc EXCEPT ![w] = "none"]
    /\ UNCHANGED <<guardlings, gstate, dead, stoplock, main_alive, wit, wcur, signaled,
                   reg_exc, reg_op, reg_calls, walks>>
    /\ LoopsUnchanged

\* with self._stoplock: if not self._dead: for guardling in self._guardlings:
\* the lock is taken when it is free, and the iterator of the deque keeps the
\* deque's mutation count
stop_acquire(w) ==
    /\ wpc[w] = "acquire"
    /\ stoplock = "free"
    /\ IF dead
       THEN /\ wpc' = [wpc EXCEPT ![w] = "returned"]
            /\ UNCHANGED <<stoplock, wit, walks>>
       ELSE /\ stoplock' = w
            /\ walks' = walks + 1
            /\ wit' = [wit EXCEPT ![w] = [left |-> Len(guardlings), state |-> gstate,
                                          walk |-> walks + 1, raised |-> FALSE]]
            /\ wpc' = [wpc EXCEPT ![w] = "next"]
    /\ UNCHANGED <<guardlings, gstate, dead, main_alive, wcur, wexc, signaled,
                   reg_exc, reg_op, reg_calls, stop_calls>>
    /\ LoopsUnchanged

\* True when the deque has changed since the iterator was made
DequeMutated(it) == it.state # gstate

\* The call of stop() ends and its iterator is gone; what the walk did is kept
Ended(it) == [it EXCEPT !.left = 0, !.state = 0]

\* next() of the deque's iterator: RuntimeError when the deque was mutated, and
\* the error leaves stop() through the with statement, which frees the lock;
\* when the deque is exhausted, self._dead = True and the lock is freed
stop_next(w) ==
    /\ wpc[w] = "next"
    /\ IF DequeMutated(wit[w])
       THEN /\ wexc' = [wexc EXCEPT ![w] = "RuntimeError"]
            /\ stoplock' = "free"
            /\ wpc' = [wpc EXCEPT ![w] = "raised"]
            /\ wit' = [wit EXCEPT ![w] = Ended(@)]
            /\ wcur' = [wcur EXCEPT ![w] = NoGuardling]
            /\ UNCHANGED dead
       ELSE IF wit[w].left = 0
       THEN /\ dead' = TRUE
            /\ stoplock' = "free"
            /\ wpc' = [wpc EXCEPT ![w] = "returned"]
            /\ wit' = [wit EXCEPT ![w] = Ended(@)]
            /\ wcur' = [wcur EXCEPT ![w] = NoGuardling]
            /\ UNCHANGED wexc
       ELSE /\ wcur' = [wcur EXCEPT ![w] = guardlings[Len(guardlings) - wit[w].left + 1]]
            /\ wit' = [wit EXCEPT ![w].left = @ - 1]
            /\ wpc' = [wpc EXCEPT ![w] = "call"]
            /\ UNCHANGED <<wexc, stoplock, dead>>
    /\ UNCHANGED <<guardlings, gstate, main_alive, signaled, reg_exc, reg_op, reg_calls,
                   stop_calls, walks>>
    /\ LoopsUnchanged

\* try: guardling.stop_threadsafe_nowait() except Exception: logger.error(...):
\* the call returns or raises, and the walk goes on either way
stop_guardling(w) ==
    /\ wpc[w] = "call"
    /\ signaled' = Append(signaled, [g |-> wcur[w].g, n |-> wcur[w].n, walk |-> wit[w].walk])
    /\ \E raises \in BOOLEAN : wit' = [wit EXCEPT ![w].raised = @ \/ raises]
    /\ wpc' = [wpc EXCEPT ![w] = "next"]
    /\ UNCHANGED <<guardlings, gstate, dead, stoplock, main_alive, wcur, wexc, reg_exc, reg_op,
                   reg_calls, stop_calls, walks>>
    /\ LoopsUnchanged

\* The objects that are registered: two loops
Guardlings == {"loop1", "loop2"}

NextAengel ==
    \/ \E g \in Guardlings : append_guardling(g)
    \/ \E g \in Guardlings : prepend_guardling(g)
    \/ \E g \in Guardlings : remove_guardling(g)
    \/ main_exit
    \/ \E w \in Walkers : aengel_stop(w)
    \/ \E w \in Walkers : stop_acquire(w)
    \/ \E w \in Walkers : stop_next(w)
    \/ \E w \in Walkers : stop_guardling(w)

SpecAengel == InitWatchdog /\ [][NextAengel]_vars

----
(***************************************************************************)
(* LoopaCommanda: several task loops under one LoopManager activation, on  *)
(* one scheduler. core.py has the class without a body; its behaviour here *)
(* is the one the specification describes.                                 *)
(***************************************************************************)

\* What the commander's steps leave alone
CommandRest ==
    UNCHANGED <<aengelv, cfgv, loopv, taskv, act, run_exc, thread, caller_pc, foreign_mode,
                foreign_ref, foreign_exc, stops, histv, troopav>>

\* start(): the shared activation begins, and with it every registered task loop
commanda_start ==
    /\ cls = "LoopaCommanda"
    /\ run_pc = "idle"
    /\ run_pc' = "looping"
    /\ term_flag' = "clear"
    /\ units' = [u \in Units |-> [units[u] EXCEPT !.state = "initializing"]]
    /\ UNCHANGED <<startup_complete_flag, shutdown_complete_flag, foreign_pc>>
    /\ CommandRest

\* startup-complete is signaled from the running scheduler
commanda_startup ==
    /\ cls = "LoopaCommanda"
    /\ run_pc = "looping"
    /\ ~startup_complete_flag
    /\ ~shutdown_complete_flag
    /\ startup_complete_flag' = TRUE
    /\ UNCHANGED <<term_flag, shutdown_complete_flag, run_pc, foreign_pc, units>>
    /\ CommandRest

\* A task loop's loop_init has completed
unit_init(u) ==
    /\ cls = "LoopaCommanda"
    /\ units[u].state = "initializing"
    /\ units' = [units EXCEPT ![u].state = "iterating"]
    /\ UNCHANGED <<flagv, run_pc, foreign_pc>>
    /\ CommandRest

\* A task loop at its loop head: a run-step while the shared stop signal is
\* unset, the way to cleanup once it is set
unit_step(u) ==
    /\ cls = "LoopaCommanda"
    /\ units[u].state = "iterating"
    /\ IF term_flag = "set"
       THEN units' = [units EXCEPT ![u].state = "stopping"]
       ELSE /\ units[u].steps < MaxUnitSteps
            /\ units' = [units EXCEPT ![u].steps = @ + 1]
    /\ UNCHANGED <<flagv, run_pc, foreign_pc>>
    /\ CommandRest

\* A task loop's one-time cleanup (loop_stop) has completed
unit_cleanup(u) ==
    /\ cls = "LoopaCommanda"
    /\ units[u].state = "stopping"
    /\ units' = [units EXCEPT ![u].state = "stopped", ![u].cleanups = @ + 1]
    /\ UNCHANGED <<flagv, run_pc, foreign_pc>>
    /\ CommandRest

\* stop_threadsafe(timeout) from a foreign thread: one shared stop signal is
\* dispatched to the scheduler, and the caller blocks for shutdown-complete
commanda_stop_threadsafe ==
    /\ cls = "LoopaCommanda"
    /\ foreign_pc = "idle"
    /\ startup_complete_flag
    /\ foreign_pc' = "dispatched"
    /\ UNCHANGED <<flagv, run_pc, units>>
    /\ CommandRest

\* The scheduler runs the dispatched callback: the shared stop signal is set
commanda_stop_delivered ==
    /\ cls = "LoopaCommanda"
    /\ foreign_pc = "dispatched"
    /\ run_pc = "looping"
    /\ term_flag' = "set"
    /\ foreign_pc' = "blocked"
    /\ UNCHANGED <<startup_complete_flag, shutdown_complete_flag, run_pc, units>>
    /\ CommandRest

AnyStopped == \E u \in Units : units[u].state = "stopped"

\* Every registered task loop has ended
AllStopped == \A u \in Units : units[u].state = "stopped"

\* The shared activation ends when its task loops have: shutdown-complete is set
commanda_finish ==
    /\ cls = "LoopaCommanda"
    /\ run_pc = "looping"
    /\ startup_complete_flag
    /\ AllStopped
    /\ run_pc' = "finished"
    /\ startup_complete_flag' = FALSE
    /\ shutdown_complete_flag' = TRUE
    /\ UNCHANGED <<term_flag, foreign_pc, units>>
    /\ CommandRest

\* The blocked caller of stop_threadsafe observes shutdown-complete, or its
\* timeout passes first
commanda_stop_return ==
    /\ cls = "LoopaCommanda"
    /\ foreign_pc = "blocked"
    /\ foreign_pc' = IF shutdown_complete_flag THEN "returned" ELSE "timed_out"
    /\ UNCHANGED <<flagv, run_pc, units>>
    /\ CommandRest

NextCommand ==
    \/ commanda_start
    \/ commanda_startup
    \/ \E u \in Units : unit_init(u)
    \/ \E u \in Units : unit_step(u)
    \/ \E u \in Units : unit_cleanup(u)
    \/ commanda_stop_threadsafe
    \/ commanda_stop_delivered
    \/ commanda_finish
    \/ commanda_stop_return

SpecCommand == InitCommand /\ [][NextCommand]_vars

----
(***************************************************************************)
(* The claims about LoopManager.                                           *)
(***************************************************************************)

\* The root coroutine has completed or run_until_complete has returned: the activation
\* is on its way out.
ActivationEnding ==
    \/ run_pc = "looping" /\ looper_future = "done"
    \/ run_pc \in {"finally_inner", "finally_clear", "finally_set"}

\* C1: with reusable_loop = false, whenever shutdown-complete is set the event loop is
\* closed, and it is closed when stop_threadsafe(timeout=None) has returned.
C1_ShutdownImpliesClosed ==
    /\ (~reusable_loop /\ shutdown_complete_flag) => loop_closed
    /\ (~reusable_loop /\ foreign_mode = "wait" /\ foreign_pc = "returned") => loop_closed

\* C1 witness: stop_threadsafe has returned from an activation the stop request ended.
C1_Witness ==
    /\ ~reusable_loop
    /\ foreign_mode = "wait"
    /\ foreign_pc = "returned"
    /\ race.finished = {"aborter"}
    /\ shutdown_complete_flag
    /\ loop_closed

\* C2: once an activation is on its way out, however it ended, shutdown-complete gets
\* set; it is set at most once per activation and exactly once when _run has ended; a
\* thread blocked in stop_threadsafe returns.
C2_ShutdownAlwaysSignaled ==
    /\ [](ActivationEnding => <>shutdown_complete_flag)
    /\ [](shutdown_sets <= 1 /\ (run_pc = "finished" => shutdown_sets = 1))
    /\ []((foreign_pc = "blocked" /\ ActivationEnding) => <>(foreign_pc = "returned"))

\* C2 witness: closing the loop failed, and shutdown-complete was set all the same.
C2_Witness ==
    /\ run_exc = "close_error"
    /\ run_pc = "finished"
    /\ shutdown_complete_flag
    /\ shutdown_sets = 1

\* C3: a stop_threadsafe_nowait() or a stop() called while startup-complete is unset
\* raises the ordering error, leaves the term flag as it was, wakes no waiter of it and
\* puts nothing on the ready queue.
C3_StopBeforeStartupFails ==
    [][ /\ (stops' = stops + 1 /\ ~startup_complete_flag)
            => /\ foreign_pc' = "raised"
               /\ foreign_exc' = "ordering"
               /\ term_flag' = term_flag
               /\ ready' = ready
        /\ (/\ ~startup_complete_flag
            /\ Running({"worker_step"})
            /\ "worker" \notin cancel_req
            /\ \E b \in {"stop_suspend", "stop_return"} : task_run(b))
            => /\ worker' = "failed"
               /\ worker_exc' = "ordering"
               /\ term_flag' = term_flag
               /\ aborter' = aborter
               /\ ready' \in {Tail(ready), Tail(ready) \o <<cb("on_completion_worker")>>}
      ]_vars

\* C3 witness: both calls have been refused.
C3_Witness ==
    /\ foreign_pc = "raised"
    /\ foreign_exc = "ordering"
    /\ worker = "failed"
    /\ worker_exc = "ordering"
    /\ term_flag = "unset"

\* C4: once stop() has succeeded inside the routine, shutdown-complete gets set, once
\* for that activation.
C4_SelfStopLeadsToShutdown ==
    /\ [](self_stopped => <>(shutdown_complete_flag /\ shutdown_sets = 1))
    /\ [](shutdown_sets <= 1)

\* C4 witness: the routine stopped itself and stayed suspended; it was cancelled and the
\* activation ended.
C4_Witness ==
    /\ self_stopped
    /\ race.finished = {"aborter"}
    /\ race.cancelled = {"worker"}
    /\ worker = "cancelled"
    /\ shutdown_complete_flag
    /\ shutdown_sets = 1

\* C5: a stop_threadsafe_nowait() that found startup-complete set ends without error.
C5_StopAfterStartupSucceeds == foreign_exc \in {"none", "ordering"}

\* C6: in a threaded LoopManager, once startup-complete has been signaled for the
\* activation, the caller of start() is not left blocked in its wait.
C6_StartReturnsOnceSignaled == ~(threaded /\ caller_pc = "blocked" /\ startup_sets > 0)

\* C7: when loop_run requests self-stop during its N-th execution, that execution is
\* the last one of the activation (runner stays N, for every N from 1 up), and once
\* the looper has ended loop_stop has run once, after the one loop_init, and has seen
\* the arguments start() gave to loop_init.
C7_SelfStopRunsExactlyN ==
    /\ self_stop_at > 0 => runner = self_stop_at
    /\ (self_stop_at > 0 /\ loop_stop_calls > 0) =>
           (loop_init_calls = 1 /\ initter = start_args /\ stopper = start_args)
    /\ (self_stop_at > 0 /\ looper_pc = "done") => loop_stop_calls = 1

C7_Witness ==
    /\ run_pc = "finished"
    /\ looper_pc = "done"
    /\ self_stop_at >= 2
    /\ runner = self_stop_at
    /\ loop_stop_calls = 1
    /\ stopper = start_args

\* C8: when stop_threadsafe_nowait hands its stop to the loop while run-step N is in
\* progress (blocked or suspended), no further run-step begins: runner stays N.
C8_ForeignStopRunsExactlyN == stop_issued_at > 0 => runner = stop_issued_at

C8_Witness ==
    /\ run_pc = "finished"
    /\ looper_pc = "done"
    /\ stop_issued_at >= 2
    /\ runner = stop_issued_at
    /\ self_stop_at = 0
    /\ loop_stop_calls = 1

\* C9 as amended: loop_stop is never attempted twice in an activation; a looper that
\* has ended attempted it once if loop_init had completed, whatever ended the loop
\* (self-stop, foreign stop, a loop_run failure, a loop_stop failure), and not at all
\* if loop_init failed.
C9_CleanupOnceAfterInit ==
    /\ loop_stop_calls <= 1
    /\ looper_pc = "done" =>
           loop_stop_calls = (IF looper_outcome = "init_failure" THEN 0 ELSE 1)

C9_Witness ==
    /\ looper_pc = "done"
    /\ looper_outcome \in {"NameError", "cleanup_failure"}
    /\ loop_stop_calls = 1
    /\ self_stop_at = 0
    /\ stop_issued_at = 0

\* C9 as stated: every looper that has ended attempted loop_stop exactly once
C9_CleanupAlwaysOnce == looper_pc = "done" => loop_stop_calls = 1

C12_CleanupNotTruncated ==
    /\ [](CleanupRunning => (~loop_closed /\ ~shutdown_complete_flag))
    /\ [][(/\ CleanupRunning
           /\ \/ flag_set
              \/ troopa_stop_bind
              \/ troopa_stop_dispatch
              \/ \E mode \in {"nowait", "wait"} : troopa_stop_threadsafe_nowait(mode))
          => (/\ cleanup' = cleanup
              /\ looper_pc' = looper_pc
              /\ looper_future' = looper_future
              /\ "cleanup" \notin cancel_req')
         ]_vars

\* C12 witness: loop_stop is suspended, the interrupt flag is not set yet, and the
\* callback of a cross-thread stop is the next one the loop runs.
C12_Witness ==
    /\ looper_pc = "cleanup_wait"
    /\ cleanup = "waiting"
    /\ shutdown_init_flag = "unset"
    /\ Running({"flag_set"})
    /\ Head(ready).id = act

\* C13: in a non-threaded LoopManager with reusable_loop = true only finalize() closes
\* the loop, and start() fails on a closed loop only; with reusable_loop = false the
\* loop is closed when the first activation has ended, and a second start() begins no
\* activation and raises.
C13_ReusableLoopStaysOpen ==
    /\ [][(~threaded /\ reusable_loop /\ ~loop_closed /\ loop_closed') => finalize]_vars
    /\ [](run_exc = "loop_closed" => loop_closed)
    /\ []((~threaded /\ ~reusable_loop /\ run_pc = "finished") => loop_closed)
    /\ []((~threaded /\ ~reusable_loop /\ act >= 2) =>
             /\ run_pc # "looping"
             /\ run_pc = "finished" => (run_exc = "loop_closed" /\ caller_pc = "raised"))

\* C13 witness: a reusable loop has been started, has completed, has been started again
\* and has completed again, and it is still open.
C13_Witness ==
    /\ ~threaded
    /\ reusable_loop
    /\ act = 2
    /\ run_pc = "finished"
    /\ run_exc = "none"
    /\ caller_pc = "returned"
    /\ ~loop_closed

\* C14: the loop of a LoopaTroopa with reusable_loop = true whose activation was ended
\* by a stop (the interrupt flag is set) is closed by finalize() only.
C14_ReusableTroopaStaysOpen ==
    [][(/\ cls = "LoopaTroopa"
        /\ reusable_loop
        /\ shutdown_init_flag = "set"
        /\ ~loop_closed
        /\ loop_closed') => finalize]_vars

\* C15: startup-complete is set at most once per activation and once in every
\* activation that got to run _execute_task; the step of _execute_task that schedules
\* the routine leaves the flag unset and puts the callback that sets it behind the
\* callbacks of the loop iteration in progress; the flag is clear again when
\* shutdown-complete gets set and when _run has ended.
C15_StartupSignaledOnceLater ==
    /\ [](startup_sets <= 1)
    /\ []((run_pc = "finished" /\ run_exc # "loop_closed") => startup_sets = 1)
    /\ [][looper_step =>
            /\ ~startup_complete_flag'
            /\ startup_sets' = 0
            /\ \E i \in 1..Len(ready') : ready'[i].k = "startup_set"
            /\ \A i \in 1..Len(ready') : ready'[i].k = "startup_set" => i > todo'
         ]_vars
    /\ [][(~shutdown_complete_flag /\ shutdown_complete_flag') => ~startup_complete_flag]_vars
    /\ [](run_pc \in {"finally_set", "finished"} => ~startup_complete_flag)

\* C15 witness: the second activation of a loop has ended; startup-complete was set
\* once in it and is clear again, shutdown-complete is set.
C15_Witness ==
    /\ act = 2
    /\ run_pc = "finished"
    /\ run_exc = "none"
    /\ startup_sets = 1
    /\ ~startup_complete_flag
    /\ shutdown_complete_flag

\* C16: the term flag is present exactly while _execute_task is between its first step
\* and its end, so it is absent before the first activation and after every activation,
\* however that ended; the first step of _execute_task makes a new, unset flag, which a
\* set scheduled for the flag of an earlier activation does not touch.
C16_TermFlagPerActivation ==
    /\ []((term_flag # "None") <=> (looper_future \in {"waiting", "woken"}))
    /\ []((act = 0 \/ run_pc = "finished") => term_flag = "None")
    /\ [][looper_step => (term_flag = "None" /\ term_flag' = "unset")]_vars
    /\ [][(Running({"term_set"}) /\ Head(ready).id # act /\ term_set)
          => term_flag' = term_flag]_vars

\* C16 witness: in a second activation the new flag is unset, and the callback that
\* sets the flag of the first activation is the next one the loop runs.
C16_Witness ==
    /\ act = 2
    /\ looper_future = "waiting"
    /\ term_flag = "unset"
    /\ Running({"term_set"})
    /\ Head(ready).id = 1

\* C17: a stop_threadsafe_nowait() or stop_threadsafe() entered when the activation has
\* ended and the loop is closed raises nothing and changes nothing but the caller's
\* own position.
C17_StopOnClosedLoopIsNoOp ==
    [][(/\ cls = "LoopManager"
        /\ run_pc = "finished"
        /\ loop_closed
        /\ stops' = stops + 1)
       => (/\ foreign_pc' # "raised"
           /\ foreign_exc' = "none"
           /\ UNCHANGED <<flagv, loopv, taskv, runv>>)]_vars

\* The walks of stop() that have ended, each with the thread that made it
EndedStops == {w \in Walkers : wpc[w] \in {"returned", "raised"} /\ wit[w].walk > 0}

\* C18: however many calls of Aengel.stop() there are, and from whichever
\* threads, the guardlings are walked once: no registration is asked to stop
\* twice, and there is no second walk.
C18_WalkHappensOnce ==
    /\ walks <= 1
    /\ \A i, j \in 1..Len(signaled) : i # j => signaled[i].n # signaled[j].n

\* A guardling of the walk that w made raised from its stop_threadsafe_nowait
RaisedInWalk(w) == wit[w].raised

\* C19: when a guardling's stop_threadsafe_nowait raises during the walk, the
\* call of Aengel.stop() that made the walk returns without an exception and
\* with the aengel marked dead.
C19_StopReturnsAfterGuardlingRaised ==
    \A w \in EndedStops : RaisedInWalk(w) => wpc[w] = "returned" /\ wexc[w] = "none" /\ dead

\* C20: of two guardlings that are asked to stop in one walk, the one that
\* was registered earlier is asked earlier.
C20_SignaledInRegistrationOrder ==
    \A i, j \in 1..Len(signaled) :
        (i < j /\ signaled[i].walk = signaled[j].walk) => signaled[i].n < signaled[j].n

\* The deque q without its entry at position i
Without(q, i) == [k \in 1..(Len(q) - 1) |-> IF k < i THEN q[k] ELSE q[k + 1]]

\* The step is a call of remove_guardling
RemoveStep == reg_calls' = reg_calls + 1 /\ reg_op'.op = "remove"

\* The positions in the deque of the registrations of the object g
Registrations(g) == {i \in 1..Len(guardlings) : guardlings[i].g = g}

\* C21: remove_guardling takes out the leftmost registration of its argument
\* and nothing else, all other registrations staying in their order; when the
\* argument has no registration the call ends with ValueError and the
\* registry is as it was.
C21_RemoveFirstOrFail ==
    [][RemoveStep =>
        LET at == Registrations(reg_op'.g)
        IN  IF at = {}
            THEN reg_exc' = "ValueError" /\ guardlings' = guardlings
            ELSE /\ reg_exc' = "none"
                 /\ \E i \in at : (\A j \in at : i <= j) /\ guardlings' = Without(guardlings, i)]_vars

\* C21 witness: an object registered twice was removed once and is still
\* registered once.
C21_Witness ==
    /\ reg_op.op = "remove"
    /\ reg_exc = "none"
    /\ reg_calls = 3
    /\ Cardinality(Registrations(reg_op.g)) = 1
    /\ Len(guardlings) = 1

\* C27: a walk of stop() that has ended, whatever the other threads registered
\* or removed while it went on, ended without an exception and with the aengel
\* marked dead.
C27_WalkEndsDead ==
    \A w \in EndedStops : wexc[w] = "none" /\ dead

RunStepBegins == cls = "LoopaTroopa" /\ runner' = runner + 1

\* The step passes the loop head of _execute_looper into another _step_looper
LoopHeadPassed == cls = "LoopaTroopa" /\ step_no' = step_no + 1

\* The step begins the cleanup: loop_stop is called
CleanupBegins == cls = "LoopaTroopa" /\ loop_stop_calls' = loop_stop_calls + 1

\* The run-step task, if there is one, has ended
RunStepOver == task \in {"none", "done", "failed", "cancelled"}

\* C23: loop_init is called once and has completed before the first run-step;
\* the loop head is passed only with the interrupt flag unset and with the
\* run-step before it ended; cleanup begins only when the last run-step has
\* finished or been cancelled, and no run-step begins after it.
C23_Lifecycle ==
    [][/\ loop_init_calls' <= 1
       /\ RunStepBegins => (loop_init_calls = 1 /\ loop_stop_calls = 0 /\ cleanup = "none")
       /\ LoopHeadPassed => (shutdown_init_flag # "set" /\ (step_no = 0 \/ task = "done"))
       /\ CleanupBegins => (RunStepOver /\ loop_init_calls = 1)]_vars

\* C23 witness: an activation that was initialised, ran two run-steps and was
\* cleaned up.
C23_Witness ==
    /\ cls = "LoopaTroopa"
    /\ loop_init_calls = 1
    /\ runner = 2
    /\ loop_stop_calls = 1
    /\ looper_pc = "done"

\* The run-step of the activation that has ended failed with a cancellation of
\* its own: none that _step_looper asked for
RunStepCancelledItself ==
    /\ task = "cancelled"
    /\ race.resolved
    /\ "task" \in race.finished

\* C24: when a run-step ends with a cancellation, the iteration ends, cleanup
\* runs once and the activation ends without a failure for the caller of
\* start.
C24_CancellationIsNormalStop ==
    (cls = "LoopaTroopa" /\ run_pc = "finished" /\ looper_pc = "done" /\ RunStepCancelledItself
        /\ cleanup = "done")
        => (loop_stop_calls = 1 /\ looper_outcome = "result" /\ run_exc = "none")

\* The step is a step of the routine task_run
RoutineSteps == cls = "LoopManager" /\ wsteps' = wsteps + 1

\* C25: the routine takes no step before startup-complete has been signaled,
\* and so no stop() of the routine is refused as an ordering error.
C25_StartupPrecedesRoutine ==
    [][RoutineSteps => (startup_complete_flag /\ worker_exc' # "ordering")]_vars

\* C26: a stop_threadsafe_nowait of a LoopaTroopa never hands its callback to
\* a closed loop: whatever the loop thread does meanwhile, the call does not
\* end with the RuntimeError of call_soon_threadsafe on a closed loop.
C26_NeverDispatchesOnClosedLoop ==
    cls = "LoopaTroopa" => foreign_exc # "loop_closed"

\* C10: when the race is resolved exactly one task is finished and exactly one is
\* pending, the pending one is the one cancelled, and the activation ends with the
\* finished one's result or failure.
C10_ExactlyOneFinishedOnePending ==
    race.resolved =>
        /\ Cardinality(race.finished) = 1
        /\ Cardinality(race.pending) = 1
        /\ race.cancelled = race.pending
        /\ looper_outcome \in {"aborter_result", "worker_result", "failure", "ordering"}

====
